---- MODULE Spec2Model ----
(***************************************************************************)
(* The bare-metal memory allocator of the Frost support library            *)
(* (sw/lib/src/memory.c): the heap cursor _sbrk, the arena allocator and   *)
(* the first-fit malloc/free, over a byte-addressable memory.              *)
(*                                                                         *)
(* The target is a 32-bit machine.  TLC's integers cannot hold 2^32, so    *)
(* the machine word is scaled to WordBits bits: every uint32_t, uintptr_t  *)
(* and pointer is a number in 0 .. 2^WordBits - 1 and wraps modulo         *)
(* 2^WordBits, an int is its two's-complement reading.  The layout is not  *)
(* scaled: a word occupies 4 bytes, struct free_slot 8 bytes, the default  *)
(* alignment is 8.                                                         *)
(***************************************************************************)
EXTENDS Integers, Sequences, FiniteSets, TLC

\* ------------------------------------------------------------------ bounds
WordBits == 9
\* content of RAM that was never written
FillByte == 165
\* number of arenas the caller keeps
MaxArenas == 2
\* operations per run of each specification
MaxCursorOps == 3
MaxArenaOps == 4
MaxMallocOps == 5
MaxScenarioOps == 7
MaxZeroOps == 5
MaxUseOps == 5
MaxStackOps == 6

\* ------------------------------------------------------- machine arithmetic
WordMod == 2 ^ WordBits
UINT32_MAX == WordMod - 1
INT_MAX == (WordMod \div 2) - 1
NULL == 0
Addr == 0 .. UINT32_MAX

\* unsigned wrap-around of the machine word
Wrap(x) == x % WordMod
\* (int) x for an unsigned word x
ToInt(x) == IF x > INT_MAX THEN x - WordMod ELSE x

RECURSIVE BitAnd(_, _)
BitAnd(a, b) ==
    IF a = 0 \/ b = 0 THEN 0
    ELSE (a % 2) * (b % 2) + 2 * BitAnd(a \div 2, b \div 2)
\* ~x on the machine word
BitNot(x) == UINT32_MAX - Wrap(x)

DEFAULT_ALIGN == 8
ALIGN(ptr, align) == BitAnd(Wrap(ptr + (align - 1)), BitNot(align - 1))
ALIGN_PADDING(ptr, align) == Wrap(ALIGN(ptr, align) - ptr)
\* ALIGN(sizeof(struct metadata), DEFAULT_ALIGN): the header footprint
SIZEOF_METADATA == 4
HeaderBytes == ALIGN(SIZEOF_METADATA, DEFAULT_ALIGN)

\* ------------------------------------------------------------------ memory
\* memory is kept as the bytes written so far; a byte never written reads
\* FillByte
Peek(m, a) == IF a \in DOMAIN m THEN m[a] ELSE FillByte
WordAt(a) == {Wrap(a + i) : i \in 0 .. 3}
\* the bytes of [a, a + n)
Range(a, n) == {Wrap(a + i) : i \in 0 .. n - 1}
\* a word is stored little-endian in 4 bytes
Store32(m, a, v) ==
    [x \in DOMAIN m \cup WordAt(a) |->
        IF x = Wrap(a) THEN v % 256
        ELSE IF x = Wrap(a + 1) THEN (v \div 256) % 256
        ELSE IF x = Wrap(a + 2) \/ x = Wrap(a + 3) THEN 0
        ELSE m[x]]
Load32(m, a) == Wrap(Peek(m, Wrap(a)) + 256 * Peek(m, Wrap(a + 1)))
\* m after the loop for (i = 0; i < n; i++) p[i] = 0
ZeroFill(m, p, n) ==
    [x \in DOMAIN m \cup Range(p, n) |-> IF Wrap(x - p) < n THEN 0 ELSE m[x]]

\* ------------------------------------------------------------------- state
VARIABLES
    heap_start,     \* &_heap_start (linker symbol)
    heap_end,       \* &_heap_end (linker symbol)
    heap_mark,      \* static char *heap_mark
    freelist,       \* static struct free_slot *freelist
    mem,            \* byte-addressable memory: the bytes written so far
    arenas,         \* the arena_t values held by the caller
    live,           \* history: malloc'ed and not yet freed, <<ptr, size>> records
    grants,         \* history: the successful _sbrk calls, in order
    cursor_failed,  \* history: some _sbrk call has returned NULL
    last,           \* history: the last call, its arguments and its result
    wr,             \* history: the addresses the last call wrote
    nops,           \* number of calls made
    sbrk_ctx,       \* the calls of _sbrk in progress, one per execution context
    interleaved,    \* history: a context took a step inside another one's call
    _brk,           \* static char *_brk of syscalls_frost.c
    blocks,         \* history: the blocks handed out by syscalls_frost.c
    task,           \* freertos_demo: each task's position and loop counter
    xDataQueue,     \* freertos_demo: the items queued
    xUartMutex,     \* freertos_demo: the holder of the UART mutex
    ulNotifiedValue, \* freertos_demo: the consumer's task-notification count
    ulProducerCount, \* freertos_demo: volatile counter
    ulConsumerCount, \* freertos_demo: volatile counter
    ulAtomicCounter, \* freertos_demo: volatile counter
    taken,          \* history: what each ulTaskNotifyTake returned
    summary         \* freertos_demo: the verdict printed, if any

\* the contexts that call _sbrk without serialising: the program and an
\* interrupt handler
Contexts == {"main", "isr"}
race_vars == <<sbrk_ctx, interleaved>>
bump_vars == <<_brk, blocks>>
demo_vars == <<task, xDataQueue, xUartMutex, ulNotifiedValue, ulProducerCount,
               ulConsumerCount, ulAtomicCounter, taken, summary>>
memory_vars == <<heap_start, heap_end, heap_mark, freelist, mem, arenas, live, grants,
                 cursor_failed, last, wr, nops>>

vars == <<memory_vars, race_vars, bump_vars, demo_vars>>

\* heap layouts: 8-aligned and unaligned start, the heap in the lower half of
\* the address space (below the peripherals)
HeapStarts == {64, 68}
HeapEndAddr == 160

NoCall == [op |-> "none", a |-> 0, size |-> 0, align |-> 0, ret |-> NULL, how |-> "none"]
Call(op, a, size, align, ret, how) ==
    [op |-> op, a |-> a, size |-> size, align |-> align, ret |-> ret, how |-> how]

\* the tasks main() creates before it starts the scheduler
Workers == {"Atomic1", "Atomic2"}
Tasks == {"Producer", "Consumer"} \cup Workers

\* no call of _sbrk in progress
NoSbrk == [pc |-> "idle", incr |-> 0, prev_heap |-> NULL, new_heap |-> NULL, ret |-> NULL]

Init ==
    /\ heap_start \in HeapStarts
    /\ heap_end = HeapEndAddr
    /\ heap_mark = heap_start
    /\ freelist = NULL
    /\ mem = [x \in {} |-> FillByte]
    /\ arenas = <<>>
    /\ live = <<>>
    /\ grants = <<>>
    /\ cursor_failed = FALSE
    /\ last = NoCall
    /\ wr = {}
    /\ nops = 0
    /\ sbrk_ctx = [t \in Contexts |-> NoSbrk]
    /\ interleaved = FALSE
    /\ _brk = heap_start
    /\ blocks = <<>>
    /\ task = [t \in Tasks |-> [pc |-> "started", i |-> 0]]
    /\ xDataQueue = <<>>
    /\ xUartMutex = "free"
    /\ ulNotifiedValue = 0
    /\ ulProducerCount = 0
    /\ ulConsumerCount = 0
    /\ ulAtomicCounter = 0
    /\ taken = <<>>
    /\ summary = "none"

\* ------------------------------------------------------------- heap cursor
\* _sbrk without the check against &_heap_end
sbrk_unbounded(incr) ==
    IF incr <= 0 THEN [ret |-> NULL, heap_mark |-> heap_mark]
    ELSE [ret |-> heap_mark, heap_mark |-> Wrap(heap_mark + incr)]

\* _sbrk refusing the request that ends exactly at &_heap_end
sbrk_off_by_one(incr) ==
    IF incr <= 0 \/ Wrap(heap_mark + incr) < heap_mark \/ Wrap(heap_mark + incr) >= heap_end
    THEN [ret |-> NULL, heap_mark |-> heap_mark]
    ELSE [ret |-> heap_mark, heap_mark |-> Wrap(heap_mark + incr)]

\* char *_sbrk(int incr): the returned pointer and the new heap_mark
_sbrk(incr) ==
    IF incr <= 0 THEN [ret |-> NULL, heap_mark |-> heap_mark]
    ELSE
        LET prev_heap == heap_mark
            new_heap == Wrap(heap_mark + incr)
        IN  IF new_heap < heap_mark THEN [ret |-> NULL, heap_mark |-> heap_mark]
            ELSE IF new_heap > heap_end THEN [ret |-> NULL, heap_mark |-> heap_mark]
            ELSE [ret |-> prev_heap, heap_mark |-> new_heap]

\* the history of successful requests after a call _sbrk(incr) returned r
Granted(r, incr) ==
    IF r.ret = NULL THEN grants ELSE Append(grants, [addr |-> r.ret, n |-> incr])

\* a direct call of _sbrk(incr)
SbrkCall(incr) ==
    LET r == _sbrk(incr)
    IN  /\ heap_mark' = r.heap_mark
        /\ grants' = Granted(r, incr)
        /\ cursor_failed' = (cursor_failed \/ r.ret = NULL)
        /\ last' = Call("sbrk", 0, incr, 0, r.ret, IF r.ret = NULL THEN "fail" ELSE "ok")
        /\ wr' = {}
        /\ nops' = nops + 1
        /\ UNCHANGED <<heap_start, heap_end, freelist, mem, arenas, live, race_vars, bump_vars, demo_vars>>

\* --------------------------------------------------------- arena allocator
\* arena_alloc storing the heap cursor as start whatever _sbrk returned
arena_alloc_no_null(size) ==
    [arena |-> [start |-> heap_mark, pos |-> 0, capacity |-> size],
     heap_mark |-> _sbrk(ToInt(size)).heap_mark]

\* arena_t arena_alloc(uint32_t size): the arena and the new heap_mark
arena_alloc(size) ==
    LET r == _sbrk(ToInt(size))
    IN  [arena |-> [start |-> r.ret, pos |-> 0, capacity |-> size],
         heap_mark |-> r.heap_mark]

\* arena_push_align without the check against the capacity
push_align_unbounded(arena, size, align) ==
    IF arena.start = NULL \/ align = 0 \/ BitAnd(align, align - 1) # 0
    THEN [ret |-> NULL, pos |-> arena.pos]
    ELSE
        LET p == ALIGN(Wrap(arena.start + arena.pos), align)
        IN  [ret |-> p, pos |-> Wrap(Wrap(p - arena.start) + size)]

\* arena_push_align moving pos to the aligned offset before it checks the fit
push_align_commits_padding(arena, size, align) ==
    IF arena.start = NULL \/ align = 0 \/ BitAnd(align, align - 1) # 0
    THEN [ret |-> NULL, pos |-> arena.pos]
    ELSE
        LET p == ALIGN(Wrap(arena.start + arena.pos), align)
            off == Wrap(p - arena.start)
        IN  IF size > UINT32_MAX - off \/ off + size > arena.capacity
            THEN [ret |-> NULL, pos |-> IF off <= arena.capacity THEN off ELSE arena.pos]
            ELSE [ret |-> p, pos |-> off + size]

\* arena_push_align aligning the offset within the arena, not the address
push_align_offset(arena, size, align) ==
    IF arena.start = NULL \/ align = 0 \/ BitAnd(align, align - 1) # 0
    THEN [ret |-> NULL, pos |-> arena.pos]
    ELSE
        LET off == ALIGN(arena.pos, align)
        IN  IF size > UINT32_MAX - off \/ off + size > arena.capacity
            THEN [ret |-> NULL, pos |-> arena.pos]
            ELSE [ret |-> Wrap(arena.start + off), pos |-> off + size]

\* char *arena_push_align(arena_t *arena, uint32_t size, uint8_t align):
\* the returned pointer and the arena's new pos
arena_push_align(arena, size, align) ==
    IF arena.start = NULL \/ align = 0 THEN [ret |-> NULL, pos |-> arena.pos]
    ELSE IF BitAnd(align, align - 1) # 0 THEN [ret |-> NULL, pos |-> arena.pos]
    ELSE
        LET p == ALIGN(Wrap(arena.start + arena.pos), align)
            off == Wrap(p - arena.start)
            new_pos == Wrap(off + size)
        IN  IF size > UINT32_MAX - off THEN [ret |-> NULL, pos |-> arena.pos]
            ELSE IF \/ arena.pos > UINT32_MAX - Wrap(new_pos - arena.pos)
                    \/ new_pos > arena.capacity
                 THEN [ret |-> NULL, pos |-> arena.pos]
            ELSE [ret |-> p, pos |-> new_pos]

\* void *arena_push(arena_t *arena, uint32_t size)
arena_push(arena, size) == arena_push_align(arena, size, DEFAULT_ALIGN)

\* arena_push_zero whose loop stops one byte early
push_zero_stops_early(arena, size) ==
    LET r == arena_push(arena, size)
    IN  [ret |-> r.ret, pos |-> r.pos, wr |-> Range(r.ret, size - 1),
         mem |-> ZeroFill(mem, r.ret, size - 1)]

\* void *arena_push_zero(arena_t *arena, uint32_t size): the pointer, the new
\* pos, the bytes written and the memory after the zeroing loop
arena_push_zero(arena, size) ==
    LET r == arena_push(arena, size)
        p == r.ret
        written == Range(p, size)
    IN  [ret |-> p, pos |-> r.pos, wr |-> written,
         mem |-> ZeroFill(mem, p, size)]

\* arena_pop subtracting without the comparison
arena_pop_wraps(arena, size) == Wrap(arena.pos - size)

\* void arena_pop(arena_t *arena, uint32_t size): the new pos
arena_pop(arena, size) == IF arena.pos >= size THEN arena.pos - size ELSE 0

\* arena_clear rewinding to the first 8-aligned offset rather than to 0
arena_clear_to_aligned(arena) == Wrap(ALIGN(arena.start, DEFAULT_ALIGN) - arena.start)

\* void arena_clear(arena_t *arena): the new pos
arena_clear(arena) == 0

\* void arena_release(arena_t *arena): the arena afterwards
arena_release(arena) == arena

How(ret) == IF ret = NULL THEN "fail" ELSE "ok"

Reserve(size) ==
    /\ Len(arenas) < MaxArenas
    /\ LET r == arena_alloc(size)
       IN  /\ arenas' = Append(arenas, r.arena)
           /\ heap_mark' = r.heap_mark
           /\ grants' = Granted([ret |-> r.arena.start], ToInt(size))
           /\ cursor_failed' = (cursor_failed \/ r.arena.start = NULL)
           /\ last' = Call("arena_alloc", Len(arenas) + 1, size, 0, r.arena.start,
                           How(r.arena.start))
    /\ wr' = {}
    /\ nops' = nops + 1
    /\ UNCHANGED <<heap_start, heap_end, freelist, mem, live, race_vars, bump_vars, demo_vars>>

PushAligned(a, size, align) ==
    /\ a \in 1 .. Len(arenas)
    /\ LET r == arena_push_align(arenas[a], size, align)
       IN  /\ arenas' = [arenas EXCEPT ![a].pos = r.pos]
           /\ last' = Call("arena_push_align", a, size, align, r.ret, How(r.ret))
    /\ wr' = {}
    /\ nops' = nops + 1
    /\ UNCHANGED <<heap_start, heap_end, heap_mark, freelist, mem, live, grants, cursor_failed, race_vars, bump_vars, demo_vars>>

Push(a, size) ==
    /\ a \in 1 .. Len(arenas)
    /\ LET r == arena_push(arenas[a], size)
       IN  /\ arenas' = [arenas EXCEPT ![a].pos = r.pos]
           /\ last' = Call("arena_push", a, size, DEFAULT_ALIGN, r.ret, How(r.ret))
    /\ wr' = {}
    /\ nops' = nops + 1
    /\ UNCHANGED <<heap_start, heap_end, heap_mark, freelist, mem, live, grants, cursor_failed, race_vars, bump_vars, demo_vars>>

PushZero(a, size) ==
    /\ a \in 1 .. Len(arenas)
    /\ LET r == arena_push_zero(arenas[a], size)
       IN  /\ arenas' = [arenas EXCEPT ![a].pos = r.pos]
           /\ mem' = r.mem
           /\ wr' = r.wr
           /\ last' = Call("arena_push_zero", a, size, DEFAULT_ALIGN, r.ret, How(r.ret))
    /\ nops' = nops + 1
    /\ UNCHANGED <<heap_start, heap_end, heap_mark, freelist, live, grants, cursor_failed, race_vars, bump_vars, demo_vars>>

Pop(a, size) ==
    /\ a \in 1 .. Len(arenas)
    /\ arenas' = [arenas EXCEPT ![a].pos = arena_pop(arenas[a], size)]
    /\ last' = Call("arena_pop", a, size, 0, NULL, "ok")
    /\ wr' = {}
    /\ nops' = nops + 1
    /\ UNCHANGED <<heap_start, heap_end, heap_mark, freelist, mem, live, grants, cursor_failed, race_vars, bump_vars, demo_vars>>

Clear(a) ==
    /\ a \in 1 .. Len(arenas)
    /\ arenas' = [arenas EXCEPT ![a].pos = arena_clear(arenas[a])]
    /\ last' = Call("arena_clear", a, 0, 0, NULL, "ok")
    /\ wr' = {}
    /\ nops' = nops + 1
    /\ UNCHANGED <<heap_start, heap_end, heap_mark, freelist, mem, live, grants, cursor_failed, race_vars, bump_vars, demo_vars>>

Release(a) ==
    /\ a \in 1 .. Len(arenas)
    /\ arenas' = [arenas EXCEPT ![a] = arena_release(arenas[a])]
    /\ last' = Call("arena_release", a, 0, 0, NULL, "ok")
    /\ wr' = {}
    /\ nops' = nops + 1
    /\ UNCHANGED <<heap_start, heap_end, heap_mark, freelist, mem, live, grants, cursor_failed, race_vars, bump_vars, demo_vars>>

\* the caller uses the bytes the arena has handed out: it stores the byte
\* 0xFF to all of [start, start + pos)
ArenaStore(a) ==
    /\ a \in 1 .. Len(arenas)
    /\ arenas[a].start # NULL /\ arenas[a].pos > 0
    /\ LET used == Range(arenas[a].start, arenas[a].pos)
       IN  /\ mem' = [x \in DOMAIN mem \cup used |-> IF x \in used THEN 255 ELSE mem[x]]
           /\ wr' = used
    /\ last' = Call("store", a, arenas[a].pos, 0, arenas[a].start, "ok")
    /\ nops' = nops + 1
    /\ UNCHANGED <<heap_start, heap_end, heap_mark, freelist, arenas, live, grants, cursor_failed, race_vars, bump_vars, demo_vars>>

\* ------------------------------------------------------- general allocator
\* struct free_slot { struct free_slot *next; uint32_t size; }
SlotNext(m, slot) == Load32(m, slot)
SlotSize(m, slot) == Load32(m, slot + 4)

\* the place a link is read from: the variable freelist, or a next field
HEAD == -1
Deref(m, p) == IF p = HEAD THEN freelist ELSE Load32(m, p)

\* the walk of malloc passing over the slots that fit exactly
RECURSIVE first_fit_strict(_, _, _)
first_fit_strict(p, block_size, fuel) ==
    LET slot == Deref(mem, p)
    IN  IF slot = NULL THEN [found |-> FALSE, hang |-> FALSE]
        ELSE IF fuel = 0 THEN [found |-> FALSE, hang |-> TRUE]
        ELSE IF block_size < SlotSize(mem, slot)
             THEN [found |-> TRUE, hang |-> FALSE, p |-> p, slot |-> slot]
        ELSE first_fit_strict(slot, block_size, fuel - 1)

\* the while loop of malloc, from the link p on: the link and the slot of the
\* first slot that fits (fuel: the iterations left before the walk is given up)
RECURSIVE FirstFit(_, _, _)
FirstFit(p, block_size, fuel) ==
    LET slot == Deref(mem, p)
    IN  IF slot = NULL THEN [found |-> FALSE, hang |-> FALSE]
        ELSE IF fuel = 0 THEN [found |-> FALSE, hang |-> TRUE]
        ELSE IF block_size <= SlotSize(mem, slot)
             THEN [found |-> TRUE, hang |-> FALSE, p |-> p, slot |-> slot]
        ELSE FirstFit(slot, block_size, fuel - 1)

\* ALIGN(size, DEFAULT_ALIGN) + ALIGN(sizeof(struct metadata), DEFAULT_ALIGN)
BlockSize(size) == Wrap(ALIGN(size, DEFAULT_ALIGN) + HeaderBytes)

\* malloc handing out the start of the slot instead of its end
carve_from_start(f, block_size) ==
    LET new_size == Wrap(SlotSize(mem, f.slot) - block_size)
        m1 == Store32(mem, f.slot + 4, new_size)
        unlink == new_size = 0
    IN  [result |-> Wrap(f.slot + HeaderBytes),
         freelist |-> IF unlink /\ f.p = HEAD THEN SlotNext(m1, f.slot) ELSE freelist,
         mem |-> IF unlink /\ f.p # HEAD THEN Store32(m1, f.p, SlotNext(m1, f.slot)) ELSE m1,
         wr |-> WordAt(f.slot + 4) \cup (IF unlink /\ f.p # HEAD THEN WordAt(f.p) ELSE {}),
         heap_mark |-> heap_mark, incr |-> 0, how |-> "freelist"]

\* malloc leaving the emptied slot on the list
carve_never_unlinks(f, block_size) ==
    LET new_size == Wrap(SlotSize(mem, f.slot) - block_size)
    IN  [result |-> Wrap(f.slot + new_size + HeaderBytes),
         freelist |-> freelist,
         mem |-> Store32(mem, f.slot + 4, new_size),
         wr |-> WordAt(f.slot + 4),
         heap_mark |-> heap_mark, incr |-> 0, how |-> "freelist"]

\* taking block_size bytes from the end of the slot found through link f.p
Carve(f, block_size) ==
    LET new_size == Wrap(SlotSize(mem, f.slot) - block_size)
        m1 == Store32(mem, f.slot + 4, new_size)
        result == Wrap(f.slot + new_size + HeaderBytes)
        unlink == new_size = 0
    IN  [result |-> result,
         freelist |-> IF unlink /\ f.p = HEAD THEN SlotNext(m1, f.slot) ELSE freelist,
         mem |-> IF unlink /\ f.p # HEAD THEN Store32(m1, f.p, SlotNext(m1, f.slot)) ELSE m1,
         wr |-> WordAt(f.slot + 4) \cup (IF unlink /\ f.p # HEAD THEN WordAt(f.p) ELSE {}),
         heap_mark |-> heap_mark, incr |-> 0, how |-> "freelist"]

\* the fallback of malloc: the block comes from the heap cursor
Fallback(block_size) ==
    LET incr == ToInt(Wrap(block_size + ALIGN_PADDING(heap_mark, DEFAULT_ALIGN)))
        r == _sbrk(incr)
    IN  [result |-> Wrap(ALIGN(r.ret, DEFAULT_ALIGN) + HeaderBytes),
         freelist |-> freelist, mem |-> mem, wr |-> {},
         heap_mark |-> r.heap_mark, incr |-> incr,
         how |-> IF r.ret = NULL THEN "exhausted" ELSE "sbrk"]

\* malloc without the test size == 0
malloc_no_zero_check(size) ==
    LET block_size == BlockSize(size)
        f == FirstFit(HEAD, block_size, WordMod)
        r == IF f.found THEN Carve(f, block_size) ELSE Fallback(block_size)
        md == Wrap(r.result - SIZEOF_METADATA)
    IN  [ret |-> r.result, freelist |-> r.freelist,
         mem |-> Store32(r.mem, md, block_size), wr |-> r.wr \cup WordAt(md),
         heap_mark |-> r.heap_mark, incr |-> r.incr, how |-> r.how]

\* void *malloc(uint32_t size): the returned pointer, the new freelist,
\* heap_mark and memory, and the bytes written
malloc(size) ==
    IF size = 0
    THEN [ret |-> NULL, freelist |-> freelist, mem |-> mem, wr |-> {},
          heap_mark |-> heap_mark, incr |-> 0, how |-> "zero"]
    ELSE
        LET block_size == BlockSize(size)
            f == FirstFit(HEAD, block_size, WordMod)
            c == IF f.found THEN Carve(f, block_size) ELSE Fallback(block_size)
            r == IF f.found /\ c.result = NULL
                 THEN [Fallback(block_size) EXCEPT !.freelist = c.freelist,
                                                   !.mem = c.mem, !.wr = c.wr]
                 ELSE c
            md == Wrap(r.result - SIZEOF_METADATA)
        IN  [ret |-> r.result, freelist |-> r.freelist,
             mem |-> Store32(r.mem, md, block_size), wr |-> r.wr \cup WordAt(md),
             heap_mark |-> r.heap_mark, incr |-> r.incr, how |-> r.how]

\* free recording the bytes behind the slot's own 8 bytes only
free_records_body(ptr) ==
    LET slot == Wrap(ptr - HeaderBytes)
        m1 == Store32(mem, slot, freelist)
        m2 == Store32(m1, slot + 4, Wrap(Load32(m1, ptr - SIZEOF_METADATA) - HeaderBytes))
    IN  [freelist |-> slot, mem |-> m2, wr |-> WordAt(slot) \cup WordAt(slot + 4)]

\* free linking the slot to itself
free_links_itself(ptr) ==
    LET slot == Wrap(ptr - HeaderBytes)
        m1 == Store32(mem, slot, slot)
        m2 == Store32(m1, slot + 4, Load32(m1, ptr - SIZEOF_METADATA))
    IN  [freelist |-> slot, mem |-> m2, wr |-> WordAt(slot) \cup WordAt(slot + 4)]

\* void free(void *ptr): the new freelist and memory, and the bytes written
free(ptr) ==
    LET slot == Wrap(ptr - HeaderBytes)
        m1 == Store32(mem, slot, freelist)
        m2 == Store32(m1, slot + 4, Load32(m1, ptr - SIZEOF_METADATA))
    IN  [freelist |-> slot, mem |-> m2, wr |-> WordAt(slot) \cup WordAt(slot + 4)]

\* the free list as the walk of malloc sees it: <<slot, size>> from the head
RECURSIVE SlotsFrom(_, _, _)
SlotsFrom(m, slot, fuel) ==
    IF slot = NULL \/ fuel = 0 THEN <<>>
    ELSE <<[slot |-> slot, size |-> SlotSize(m, slot)]>>
         \o SlotsFrom(m, SlotNext(m, slot), fuel - 1)
FreeSlots == SlotsFrom(mem, freelist, WordMod)

Malloc(size) ==
    /\ LET r == malloc(size)
       IN  /\ ~FirstFit(HEAD, BlockSize(size), WordMod).hang
           /\ freelist' = r.freelist
           /\ mem' = r.mem
           /\ heap_mark' = r.heap_mark
           /\ wr' = r.wr
           /\ grants' = IF r.how = "sbrk"
                        THEN Append(grants, [addr |-> heap_mark, n |-> r.incr])
                        ELSE grants
           /\ cursor_failed' = (cursor_failed \/ r.how = "exhausted")
           /\ live' = IF r.ret = NULL THEN live
                      ELSE Append(live, [ptr |-> r.ret, size |-> size])
           /\ last' = Call("malloc", 0, size, 0, r.ret, r.how)
    /\ nops' = nops + 1
    /\ UNCHANGED <<heap_start, heap_end, arenas, race_vars, bump_vars, demo_vars>>

\* the caller frees the i-th pointer it holds
Free(i) ==
    /\ i \in 1 .. Len(live)
    /\ LET r == free(live[i].ptr)
       IN  /\ freelist' = r.freelist
           /\ mem' = r.mem
           /\ wr' = r.wr
           /\ last' = Call("free", i, live[i].size, 0, live[i].ptr, "ok")
    /\ live' = SubSeq(live, 1, i - 1) \o SubSeq(live, i + 1, Len(live))
    /\ nops' = nops + 1
    /\ UNCHANGED <<heap_start, heap_end, heap_mark, arenas, grants, cursor_failed, race_vars, bump_vars, demo_vars>>

\* the caller uses the i-th block it holds: it stores the byte 0xFF to the
\* size bytes it asked for
BlockStore(i) ==
    /\ i \in 1 .. Len(live)
    /\ LET body == Range(live[i].ptr, live[i].size)
       IN  /\ mem' = [x \in DOMAIN mem \cup body |-> IF x \in body THEN 255 ELSE mem[x]]
           /\ wr' = body
    /\ last' = Call("store", i, live[i].size, 0, live[i].ptr, "ok")
    /\ nops' = nops + 1
    /\ UNCHANGED <<heap_start, heap_end, heap_mark, freelist, arenas, live, grants, cursor_failed, race_vars, bump_vars, demo_vars>>

\* ---------------------------------------------------------- specifications
\* the arguments the callers pass
SbrkIncrs == {-8, 0, 20, INT_MAX}
CursorReserveSizes == {0, 10, INT_MAX + 1}
ArenaReserveSizes == {0, 16, 80, INT_MAX + 1}
MallocReserveSizes == {10}
\* <<size, align>>
PushAlignedArgs ==
    {<<0, 16>>, <<10, 1>>, <<10, 2>>, <<16, 4>>, <<10, 8>>, <<10, 32>>, <<10, 64>>, <<10, 128>>, <<0, 128>>,
     <<10, 0>>, <<10, 3>>, <<10, 96>>, <<UINT32_MAX - 3, 4>>, <<UINT32_MAX - 3, 16>>}
PushSizes == {0, 10, 16}
PopSizes == {4, 100}
MallocSizes == {0, 1, 9, 100, UINT32_MAX - 2}
\* and a size whose block does not fit the int argument of _sbrk
CursorMallocSizes == MallocSizes \cup {INT_MAX - 5}

\* the scenario of an arena of capacity 64 filled by pushes of 10 bytes
ScenarioIncrs == {1, 20}
ScenarioReserveSizes == {64}
ScenarioPushSizes == {10}

\* an arena that is filled, used, emptied and filled again with zeroed bytes
ZeroReserveSizes == {16}
ZeroPushSizes == {10, 16}
ZeroPopSizes == {4}

\* blocks that are written by the caller before they are freed
UseMallocSizes == {1, 9, 100}

\* an arena used as a stack: pushes and pops of the same size, clear, release
StackPushSizes == {10}

\* each caller makes a bounded number of calls
Budget(max) == nops < max

NextCursor ==
    \/ \E incr \in SbrkIncrs \cup {heap_end - heap_mark, heap_end - heap_mark + 1} :
            Budget(MaxCursorOps) /\ SbrkCall(incr)
    \/ \E size \in CursorReserveSizes : Budget(MaxCursorOps) /\ Reserve(size)
    \/ \E size \in CursorMallocSizes : Budget(MaxCursorOps) /\ Malloc(size)
    \/ \E i \in 1 .. Len(live) : Budget(MaxCursorOps) /\ Free(i)

NextArena ==
    \/ \E size \in ArenaReserveSizes : Budget(MaxArenaOps) /\ Reserve(size)
    \/ \E a \in 1 .. Len(arenas), args \in PushAlignedArgs :
            Budget(MaxArenaOps) /\ PushAligned(a, args[1], args[2])
    \/ \E a \in 1 .. Len(arenas), size \in PushSizes : Budget(MaxArenaOps) /\ Push(a, size)
    \/ \E a \in 1 .. Len(arenas), size \in PushSizes :
            Budget(MaxArenaOps) /\ PushZero(a, size)
    \/ \E a \in 1 .. Len(arenas), size \in PopSizes : Budget(MaxArenaOps) /\ Pop(a, size)
    \/ \E a \in 1 .. Len(arenas) : Budget(MaxArenaOps) /\ Clear(a)
    \/ \E a \in 1 .. Len(arenas) : Budget(MaxArenaOps) /\ Release(a)

NextMalloc ==
    \/ \E size \in MallocSizes : Budget(MaxMallocOps) /\ Malloc(size)
    \/ \E i \in 1 .. Len(live) : Budget(MaxMallocOps) /\ Free(i)
    \/ \E size \in MallocReserveSizes : Budget(MaxMallocOps) /\ Reserve(size)

NextScenario ==
    \/ \E incr \in ScenarioIncrs : Budget(MaxScenarioOps) /\ SbrkCall(incr)
    \/ \E size \in ScenarioReserveSizes : Budget(MaxScenarioOps) /\ Reserve(size)
    \/ \E a \in 1 .. Len(arenas), size \in ScenarioPushSizes :
            Budget(MaxScenarioOps) /\ Push(a, size)

NextZero ==
    \/ \E size \in ZeroReserveSizes : Budget(MaxZeroOps) /\ Reserve(size)
    \/ \E a \in 1 .. Len(arenas), size \in ZeroPushSizes :
            Budget(MaxZeroOps) /\ PushZero(a, size)
    \/ \E a \in 1 .. Len(arenas) : Budget(MaxZeroOps) /\ ArenaStore(a)
    \/ \E a \in 1 .. Len(arenas), size \in ZeroPopSizes : Budget(MaxZeroOps) /\ Pop(a, size)
    \/ \E a \in 1 .. Len(arenas) : Budget(MaxZeroOps) /\ Clear(a)

NextUse ==
    \/ \E size \in UseMallocSizes : Budget(MaxUseOps) /\ Malloc(size)
    \/ \E i \in 1 .. Len(live) : Budget(MaxUseOps) /\ BlockStore(i)
    \/ \E i \in 1 .. Len(live) : Budget(MaxUseOps) /\ Free(i)

NextStack ==
    \/ \E size \in ScenarioReserveSizes : Budget(MaxStackOps) /\ Reserve(size)
    \/ \E a \in 1 .. Len(arenas), size \in StackPushSizes : Budget(MaxStackOps) /\ Push(a, size)
    \/ \E a \in 1 .. Len(arenas), size \in StackPushSizes : Budget(MaxStackOps) /\ Pop(a, size)
    \/ \E a \in 1 .. Len(arenas) : Budget(MaxStackOps) /\ Clear(a)
    \/ \E a \in 1 .. Len(arenas) : Budget(MaxStackOps) /\ Release(a)

\* every operation that reaches the heap cursor
Spec == Init /\ [][NextCursor]_vars
\* the arena allocator
SpecArena == Init /\ [][NextArena]_vars
\* malloc and free, next to arenas
SpecMalloc == Init /\ [][NextMalloc]_vars
\* an arena of capacity 64 reserved after other heap-cursor requests
SpecScenario == Init /\ [][NextScenario]_vars
\* arenas whose bytes the caller writes between the pushes
SpecZero == Init /\ [][NextZero]_vars
\* malloc and free with a caller that fills the blocks it holds
SpecUse == Init /\ [][NextUse]_vars
\* an arena pushed, popped, cleared and released
SpecStack == Init /\ [][NextStack]_vars

\* ------------------------------------------------------------------ claims
\* a step that is a call of one of the operations ops
Calls(ops) == nops' = nops + 1 /\ last'.op \in ops

\* no slot of the free list fits and the heap cursor cannot grow by the block
Exhausted(size) ==
    /\ size # 0
    /\ \A i \in 1 .. Len(FreeSlots) : FreeSlots[i].size < BlockSize(size)
    /\ heap_mark + BlockSize(size) + ALIGN_PADDING(heap_mark, DEFAULT_ALIGN) > heap_end

\* C1: when no free slot fits and the heap cursor cannot satisfy the fallback
\* request, malloc returns NULL and heap_mark, the free list and every byte of
\* memory are as before the call.
C1_ExhaustionReturnsNull ==
    [][(Calls({"malloc"}) /\ Exhausted(last'.size))
        => (last'.ret = NULL /\ heap_mark' = heap_mark /\ freelist' = freelist
            /\ mem' = mem /\ wr' = {})]_vars

\* C2: the successful heap-cursor requests return increasing, non-overlapping
\* ranges, heap_mark never decreases and stays within [heap_start, heap_end].
C2_MonotonicCursor ==
    /\ [](/\ heap_start <= heap_mark /\ heap_mark <= heap_end
          /\ \A i, j \in 1 .. Len(grants) :
                i < j => /\ grants[j].addr >= grants[i].addr + grants[i].n
                         /\ grants[j].addr > grants[i].addr
          /\ \A i \in 1 .. Len(grants) :
                /\ heap_start <= grants[i].addr
                /\ grants[i].addr + grants[i].n <= heap_mark)
    /\ [][heap_mark' >= heap_mark]_vars

\* requests through _sbrk itself, arena_alloc and malloc have all been granted
C2_Witness ==
    /\ Len(grants) >= 3
    /\ last.op = "malloc" /\ last.how = "sbrk"
    /\ \E a \in 1 .. Len(arenas) : arenas[a].start # NULL

\* C3: a request _sbrk(n) fails exactly when n <= 0, heap_mark + n wraps the
\* address space or heap_mark + n > heap_end; a failed request leaves heap_mark
\* unchanged; a request ending exactly at heap_end succeeds; a successful one
\* advances heap_mark by n and returns the value heap_mark had before.
C3_CursorRequest ==
    [][Calls({"sbrk"}) =>
        LET n == last'.size
            fails == n <= 0 \/ heap_mark + n > UINT32_MAX \/ heap_mark + n > heap_end
        IN  /\ (last'.ret = NULL) <=> fails
            /\ fails => heap_mark' = heap_mark
            /\ ~fails => (heap_mark' = heap_mark + n /\ last'.ret = heap_mark)
            /\ (n > 0 /\ heap_mark + n = heap_end) => last'.ret # NULL]_vars

\* a request that ends exactly at heap_end has succeeded
C3_Witness ==
    /\ last.op = "sbrk" /\ last.ret # NULL
    /\ last.ret + last.size = heap_end
    /\ heap_mark = heap_end

\* the arena the last call was made on
LastArena == arenas[last.a]
IsPowerOfTwo(n) == \E k \in 0 .. 7 : n = 2 ^ k
\* the least multiple of align that is >= x
AlignedUp(x, align) == CHOOSE y \in x .. x + align - 1 : y % align = 0

\* C4 as stated: after a successful push of any size >= 0, 0 <= pos <= capacity
\* and the returned address lies in [start, start + capacity).
C4_ReturnedInHalfOpenRange ==
    (last.op \in {"arena_push", "arena_push_align"} /\ last.ret # NULL)
        => /\ 0 <= LastArena.pos /\ LastArena.pos <= LastArena.capacity
           /\ LastArena.start <= last.ret
           /\ last.ret < LastArena.start + LastArena.capacity

\* C4 as amended: every arena keeps 0 <= pos <= capacity; after a successful
\* push the returned range [ret, ret + size) lies in [start, start + pos], so
\* the returned address lies in [start, start + capacity], and in
\* [start, start + capacity) when size > 0.
C4_ReturnedInArena ==
    /\ \A a \in 1 .. Len(arenas) : 0 <= arenas[a].pos /\ arenas[a].pos <= arenas[a].capacity
    /\ (last.op \in {"arena_push", "arena_push_align"} /\ last.ret # NULL)
        => /\ LastArena.start <= last.ret
           /\ last.ret + last.size <= LastArena.start + LastArena.pos
           /\ last.ret <= LastArena.start + LastArena.capacity
           /\ last.size > 0 => last.ret < LastArena.start + LastArena.capacity

\* a push of size 0 on a full arena has returned start + capacity
C4_Witness ==
    /\ last.op \in {"arena_push", "arena_push_align"} /\ last.ret # NULL
    /\ last.size = 0
    /\ LastArena.pos = LastArena.capacity
    /\ last.ret = LastArena.start + LastArena.capacity

\* C5: a push fails and leaves pos unchanged whenever the aligned offset plus
\* size exceeds the capacity or overflows the word, or align is 0 or no power
\* of two; no failing call moves pos.
C5_FailedPushKeepsPos ==
    [][Calls({"arena_push_align", "arena_push"}) =>
        LET a == last'.a
            size == last'.size
            align == last'.align
            off == AlignedUp(arenas[a].start + arenas[a].pos, align) - arenas[a].start
            bad == \/ align = 0
                   \/ ~IsPowerOfTwo(align)
                   \/ off + size > UINT32_MAX
                   \/ off + size > arenas[a].capacity
        IN  /\ bad => last'.ret = NULL
            /\ last'.ret = NULL => arenas' = arenas]_vars

\* a push that needed alignment padding has failed for lack of room
C5_Witness ==
    /\ last.op = "arena_push_align" /\ last.ret = NULL
    /\ IsPowerOfTwo(last.align)
    /\ LastArena.start # NULL
    /\ (LastArena.start + LastArena.pos) % last.align # 0
    /\ last.size <= LastArena.capacity

\* C6: a successful arena_push_align returns an address that is a multiple of
\* align, whatever the alignment of the arena's start; a successful arena_push
\* returns a multiple of 8.
C6_AlignedAddress ==
    /\ (last.op = "arena_push_align" /\ last.ret # NULL) => last.ret % last.align = 0
    /\ (last.op = "arena_push" /\ last.ret # NULL) => last.ret % 8 = 0

\* a push aligned to 128 has succeeded on an arena whose start is unaligned
C6_Witness ==
    /\ last.op = "arena_push_align" /\ last.ret # NULL
    /\ last.align = 128
    /\ LastArena.start % 8 # 0

\* C7: when the push inside arena_push_zero fails, arena_push_zero returns
\* NULL, leaves pos unchanged and writes no byte of memory.
C7_FailedPushZeroWritesNothing ==
    [][(Calls({"arena_push_zero"}) /\ arena_push(arenas[last'.a], last'.size).ret = NULL)
        => (last'.ret = NULL /\ arenas' = arenas /\ wr' = {} /\ mem' = mem)]_vars

\* the block of an allocation: the header footprint and the body
Block(l) == Range(l.ptr - HeaderBytes, BlockSize(l.size))
\* the region [slot, slot + size) of a slot of the free list
SlotRegion(e) == Range(e.slot, e.size)
ArenaRegion(a) == IF arenas[a].start = NULL THEN {} ELSE Range(arenas[a].start, arenas[a].capacity)

\* a step free(p) right after the call p = malloc(size) that returned p
RoundTrip == last.op = "malloc" /\ last.ret # NULL /\ Calls({"free"}) /\ last'.a = Len(live)
\* the round trip wrote inside no other live block, and only inside the block
\* handed out and the slots of the free list
RoundTripFrame ==
    LET written == wr \cup wr'
        slots == FreeSlots'
    IN  /\ \A i \in 1 .. Len(live) - 1 : written \cap Block(live[i]) = {}
        /\ written \subseteq
             Block(live[Len(live)]) \cup UNION {SlotRegion(slots[i]) : i \in 1 .. Len(slots)}

\* C8: p = malloc(size) immediately followed by free(p) leaves the header and
\* the body of every other live allocation unwritten; all it writes lies in
\* the block handed out or in slots of the free list.
C8_RoundTripKeepsNeighbours == [][RoundTrip => RoundTripFrame]_vars

\* the same while every pointer the caller holds came from a malloc that did
\* not hit exhaustion
C8_RoundTripInsideHeap ==
    [][(RoundTrip /\ \A i \in 1 .. Len(live) : live[i].ptr >= heap_start)
        => RoundTripFrame]_vars

C11_ZeroSizeFails ==
    [][(Calls({"malloc"}) /\ last'.size = 0)
        => /\ last'.ret = NULL
           /\ heap_mark' = heap_mark
           /\ freelist' = freelist /\ FreeSlots' = FreeSlots
           /\ mem' = mem /\ live' = live]_vars

\* malloc(0) was called with slots on the free list and heap left to hand out
C11_Witness ==
    /\ last.op = "malloc" /\ last.size = 0 /\ last.ret = NULL
    /\ Len(FreeSlots) >= 1
    /\ heap_start < heap_mark /\ heap_mark + 2 * DEFAULT_ALIGN <= heap_end

\* the block size does not fit the word, or no slot fits and the request to
\* the heap cursor does not fit its int argument
Overflows(size) ==
    \/ AlignedUp(size, DEFAULT_ALIGN) + HeaderBytes > UINT32_MAX
    \/ /\ size # 0
       /\ \A i \in 1 .. Len(FreeSlots) : FreeSlots[i].size < BlockSize(size)
       /\ BlockSize(size) + ALIGN_PADDING(heap_mark, DEFAULT_ALIGN) > INT_MAX

\* C12: when align(size, 8) + 8 does not fit the word, or block_size plus the
\* alignment padding does not fit the argument of the heap cursor, malloc
\* returns NULL, hands out no block and leaves heap_mark, the free list and
\* memory unchanged.
C12_OverflowFails ==
    [][(Calls({"malloc"}) /\ Overflows(last'.size))
        => /\ last'.ret = NULL
           /\ live' = live
           /\ heap_mark' = heap_mark
           /\ freelist' = freelist
           /\ mem' = mem]_vars

\* the same for the requests whose block size wraps around the word only
C12_WrappedBlockSize ==
    [][(Calls({"malloc"}) /\ AlignedUp(last'.size, DEFAULT_ALIGN) + HeaderBytes > UINT32_MAX)
        => (last'.ret = NULL /\ heap_mark' = heap_mark)]_vars

\* an arena obtained from a successful arena_alloc(64)
Scenario(a) == arenas[a].capacity = 64 /\ arenas[a].start # NULL
\* a failed push changes no arena
FailedPushKeepsArenas == [][(Calls({"arena_push"}) /\ last'.ret = NULL) => arenas' = arenas]_vars

\* C13 as stated: on every arena from arena_alloc(64), whatever requests to
\* the heap cursor came before, the pushes of 10 bytes return start + 0, then
\* start + 16 (pos goes through 10, 26, 42, 58, each push returning
\* start + pos - 10), they succeed until one would exceed the capacity, and
\* that push fails leaving pos unchanged.
C13_ScenarioOffsets ==
    /\ [](\A a \in 1 .. Len(arenas) : Scenario(a) =>
            /\ arenas[a].pos \in {0, 10, 26, 42, 58}
            /\ (last.op = "arena_push" /\ last.a = a /\ last.ret # NULL)
                    => last.ret = arenas[a].start + arenas[a].pos - 10
            /\ (last.op = "arena_push" /\ last.a = a /\ last.ret = NULL)
                    => arenas[a].pos = 58)
    /\ FailedPushKeepsArenas

\* C13 as amended: the pushes of 10 bytes return the successive multiples of
\* 8 from the first one >= start on, 16 bytes apart; on an arena whose start
\* is a multiple of 8 these are start + 0, start + 16, ...; the pushes succeed
\* until one would exceed the capacity 64 and that push fails leaving pos
\* unchanged.
C13_ScenarioAligned ==
    /\ [](\A a \in 1 .. Len(arenas) : Scenario(a) =>
            LET start == arenas[a].start
                pos == arenas[a].pos
                pad == AlignedUp(start, 8) - start
            IN  /\ pos \in {0} \cup {x \in {pad + 16 * k + 10 : k \in 0 .. 3} : x <= 64}
                /\ (last.op = "arena_push" /\ last.a = a /\ last.ret # NULL)
                        => /\ last.ret = start + pos - 10
                           /\ last.ret % 8 = 0
                /\ (last.op = "arena_push" /\ last.a = a /\ last.ret = NULL)
                        => AlignedUp(start + pos, 8) - start + 10 > 64
                /\ (start % 8 = 0) => pos \in {0, 10, 26, 42, 58}
                /\ (start % 8 = 0 /\ last.op = "arena_push" /\ last.a = a /\ last.ret = NULL)
                        => pos = 58)
    /\ FailedPushKeepsArenas

\* after a request to the heap cursor and arena_alloc(64), four pushes have
\* filled the arena from start + 0 on and the fifth has failed
C13_Witness ==
    /\ last.op = "arena_push" /\ last.ret = NULL
    /\ Scenario(last.a)
    /\ LastArena.start % 8 = 0 /\ LastArena.pos = 58
    /\ Len(grants) >= 2 /\ grants[Len(grants)].addr = LastArena.start

\* the same scenario on an arena whose start is no multiple of 8
C13_UnalignedStart ==
    /\ last.op = "arena_push" /\ last.ret # NULL
    /\ Scenario(last.a)
    /\ LastArena.start % 8 # 0
    /\ LastArena.pos > 16

PushOps == {"arena_push", "arena_push_align"}

\* C14: arena_alloc(size) returns an arena with pos = 0, capacity = size and
\* start = the heap cursor before the call, which it advances by size; when
\* the request fails (size 0, size >= 2^31, not enough heap) start is NULL and
\* heap_mark is unchanged, and every later push on that arena returns NULL and
\* keeps pos = 0.
C14_ReserveAndFailedArenas ==
    /\ [](\A a \in 1 .. Len(arenas) : arenas[a].start = NULL =>
            /\ arenas[a].pos = 0
            /\ (last.op \in PushOps /\ last.a = a) => last.ret = NULL)
    /\ [][Calls({"arena_alloc"}) =>
            LET size == last'.size
                fails == size = 0 \/ size > INT_MAX \/ heap_mark + size > heap_end
                new == arenas'[Len(arenas')]
            IN  /\ Len(arenas') = Len(arenas) + 1
                /\ new.pos = 0 /\ new.capacity = size
                /\ new.start = (IF fails THEN NULL ELSE heap_mark)
                /\ last'.ret = new.start
                /\ heap_mark' = (IF fails THEN heap_mark ELSE heap_mark + size)]_vars

\* a push that would fit the capacity was refused by an arena whose
\* reservation failed for lack of heap
C14_Witness ==
    /\ last.op = "arena_push_align" /\ last.ret = NULL
    /\ IsPowerOfTwo(last.align)
    /\ LastArena.start = NULL /\ LastArena.pos = 0
    /\ 0 < last.size /\ last.size <= LastArena.capacity
    /\ LastArena.capacity <= INT_MAX

\* C15: arena_pop(arena, size) sets pos to pos - size when size <= pos and to
\* 0 when size > pos; pos never wraps below zero; start and capacity and the
\* other arenas are unchanged.
C15_PopSaturates ==
    [][Calls({"arena_pop"}) =>
        LET a == last'.a
            size == last'.size
            pos == arenas[a].pos
        IN  /\ arenas'[a].pos = (IF size <= pos THEN pos - size ELSE 0)
            /\ arenas'[a].pos <= pos
            /\ arenas' = [arenas EXCEPT ![a].pos = arenas'[a].pos]]_vars

\* arena_alloc, arena_push_zero of 10 bytes, then a pop of more bytes than
\* the arena holds: pos went from 10 to 0
C15_Witness ==
    /\ nops = 3 /\ Len(arenas) = 1
    /\ last.op = "arena_pop"
    /\ LastArena.start # NULL
    /\ Range(LastArena.start, 10) \subseteq DOMAIN mem
    /\ last.size > LastArena.capacity
    /\ LastArena.pos = 0

\* C16: after a successful arena_push_zero(arena, size) every byte of
\* [p, p + size) of the returned pointer p reads 0, also where the caller had
\* stored non-zero bytes before an arena_pop or arena_clear; pos is what
\* arena_push(arena, size) gives from the same state; no other byte changes.
C16_ZeroFilled ==
    [][(Calls({"arena_push_zero"}) /\ last'.ret # NULL) =>
        LET a == last'.a
            size == last'.size
            p == last'.ret
        IN  /\ \A x \in Range(p, size) : Peek(mem', x) = 0
            /\ \A x \in DOMAIN mem \ Range(p, size) : mem'[x] = mem[x]
            /\ p = AlignedUp(arenas[a].start + arenas[a].pos, 8)
            /\ arenas'[a].pos = p - arenas[a].start + size
            /\ arenas'[a].pos = arena_push(arenas[a], size).pos]_vars

\* 10 zeroed bytes were handed out again from a region the caller had filled
\* with 0xFF before the arena was emptied: the bytes behind them still read 0xFF
C16_Witness ==
    /\ last.op = "arena_push_zero" /\ last.ret # NULL
    /\ last.size = 10
    /\ last.ret = LastArena.start /\ LastArena.pos = 10
    /\ \A x \in Range(last.ret, 10) : Peek(mem, x) = 0
    /\ \A x \in Range(last.ret + 10, 6) : Peek(mem, x) = 255

\* the bytes [a, a + n) lie in the heap region [heap_start, heap_end)
InHeap(a, n) == heap_start <= a /\ a + n <= heap_end
\* what malloc returns when _sbrk has returned NULL
BogusPtr == Wrap(ALIGN(NULL, DEFAULT_ALIGN) + HeaderBytes)

\* C17: in every reachable state every pointer malloc has returned, with its
\* whole block of block_size bytes, and every slot of the free list lies
\* inside [heap_start, heap_end).
C17_Containment ==
    /\ \A i \in 1 .. Len(live) : InHeap(live[i].ptr - HeaderBytes, BlockSize(live[i].size))
    /\ \A i \in 1 .. Len(FreeSlots) : InHeap(FreeSlots[i].slot, FreeSlots[i].size)

\* the same for all pointers but the one an exhausted malloc returns
C17_ContainmentButExhausted ==
    /\ \A i \in 1 .. Len(live) :
            \/ live[i].ptr = BogusPtr
            \/ InHeap(live[i].ptr - HeaderBytes, BlockSize(live[i].size))
    /\ \A i \in 1 .. Len(FreeSlots) : InHeap(FreeSlots[i].slot, FreeSlots[i].size)

FreePushesFront ==
    LET ptr == last'.ret
    IN  FreeSlots' = <<[slot |-> ptr - HeaderBytes,
                        size |-> Load32(mem, ptr - SIZEOF_METADATA)]>> \o FreeSlots
\* a request that no single slot can hold is served by the heap cursor and
\* leaves the list as it was, whatever the slots add up to
NoCoalescing ==
    (last'.size # 0 /\ \A i \in 1 .. Len(FreeSlots) : FreeSlots[i].size < BlockSize(last'.size))
        => (last'.how \in {"sbrk", "exhausted"} /\ FreeSlots' = FreeSlots)

\* C19: after free(ptr) the head of the free list is a slot at ptr minus the
\* header footprint whose size is the block_size in ptr's header, followed by
\* the previous list unchanged; freed blocks are never merged, so a request
\* larger than each slot is served from the heap cursor even when adjacent
\* slots together could hold it.
C19_FreeIsLIFO ==
    [][/\ Calls({"free"}) => FreePushesFront
       /\ Calls({"malloc"}) => NoCoalescing]_vars

\* the same for the pointers that did not come from an exhausted malloc
C19_FreeIsLIFOInsideHeap ==
    [][/\ (Calls({"free"}) /\ last'.ret # BogusPtr) => FreePushesFront
       /\ Calls({"malloc"}) => NoCoalescing]_vars

\* two freed blocks lie next to each other as two slots, and a request larger
\* than each of them, not larger than both together, came from the heap cursor
C19_AdjacentStayTwo ==
    /\ last.op = "malloc" /\ last.how = "sbrk"
    /\ Len(FreeSlots) = 2
    /\ FreeSlots[1].slot + FreeSlots[1].size = FreeSlots[2].slot
    /\ FreeSlots[1].size < BlockSize(last.size)
    /\ FreeSlots[2].size < BlockSize(last.size)
    /\ BlockSize(last.size) <= FreeSlots[1].size + FreeSlots[2].size

\* align(size, 8) + 8, the size of the block that holds size bytes
FullBlockSize(size) == AlignedUp(size, DEFAULT_ALIGN) + HeaderBytes
\* the word in front of ptr
HeaderOf(m, ptr) == Load32(m, ptr - SIZEOF_METADATA)

\* C20: after every malloc(size) that returns a pointer, from the free list
\* or from the heap cursor, the word in front of the pointer holds
\* align(size, 8) + 8, and it holds that value when the pointer is passed to
\* free.
C20_Header ==
    [][/\ (Calls({"malloc"}) /\ last'.ret # NULL)
            => HeaderOf(mem', last'.ret) = FullBlockSize(last'.size)
       /\ Calls({"free"})
            => HeaderOf(mem, last'.ret) = FullBlockSize(last'.size)]_vars

\* the same for the requests whose block size fits the word and that did not
\* exhaust the heap
C20_HeaderOfFittingRequests ==
    [][/\ (Calls({"malloc"}) /\ last'.ret \notin {NULL, BogusPtr}
                             /\ FullBlockSize(last'.size) <= UINT32_MAX)
            => /\ HeaderOf(mem', last'.ret) = FullBlockSize(last'.size)
               /\ last'.how \in {"freelist", "sbrk"}
       /\ (Calls({"free"}) /\ last'.ret # BogusPtr
                           /\ FullBlockSize(last'.size) <= UINT32_MAX)
            => HeaderOf(mem, last'.ret) = FullBlockSize(last'.size)]_vars

\* with a caller that fills its blocks: while no malloc has exhausted the
\* heap, the header of a block holds its block size when the block is freed
C20_HeaderSurvivesStores ==
    [][(Calls({"free"}) /\ ~cursor_failed)
            => HeaderOf(mem, last'.ret) = FullBlockSize(last'.size)]_vars

\* a block taken from the free list was filled by the caller and then freed
C20_StoredThenFreed ==
    /\ last.op = "free"
    /\ \A x \in Range(last.ret, last.size) : Peek(mem, x) = 255
    /\ Len(FreeSlots) >= 2
    /\ ~cursor_failed

\* the blocks of the live allocations that lie in the heap
HeapBlocks == {Block(live[i]) : i \in {j \in 1 .. Len(live) : live[j].ptr >= heap_start}}
\* the bytes the heap cursor has handed out
GrantedBytes == heap_start .. heap_mark - 1
\* the region of n bytes at a is handed-out heap that belongs to no live block
\* and to no other slot than the k-th
FreeRegion(a, n, k) ==
    /\ Range(a, n) \subseteq GrantedBytes
    /\ \A b \in HeapBlocks : Range(a, n) \cap b = {}
    /\ \A i \in 1 .. Len(FreeSlots) : i # k => Range(a, n) \cap SlotRegion(FreeSlots[i]) = {}

PushSucceeds == Calls({"arena_push"}) /\ last'.ret # NULL
\* a step arena_pop(arena, size) right after the successful arena_push of
\* the same size on the same arena
PopAfterPush ==
    /\ last.op = "arena_push" /\ last.ret # NULL
    /\ Calls({"arena_pop"}) /\ last'.a = last.a /\ last'.size = last.size

\* C22 as stated: arena_pop(arena, size) right after a successful
\* arena_push(arena, size) leaves pos at its value before the push.
C22_PushPopRestoresPos ==
    [][PushSucceeds =>
        arena_pop(arenas'[last'.a], last'.size) = arenas[last'.a].pos]_vars

\* C22 as amended: arena_pop(arena, size) right after a successful
\* arena_push(arena, size) leaves pos at the aligned offset the push returned,
\* which is the value before the push plus the alignment padding; it is the
\* value before the push exactly when start + pos was a multiple of 8.
C22_PushPopKeepsPadding ==
    [][/\ PushSucceeds =>
            LET ar == arenas[last'.a]
                off == AlignedUp(ar.start + ar.pos, 8) - ar.start
                popped == arena_pop(arenas'[last'.a], last'.size)
            IN  /\ popped = off
                /\ popped = last'.ret - ar.start
                /\ popped >= ar.pos
                /\ (popped = ar.pos) <=> ((ar.start + ar.pos) % 8 = 0)
       /\ PopAfterPush => arenas'[last'.a].pos = last.ret - arenas[last'.a].start]_vars

\* arena_alloc(64), two pushes of 10 bytes and a pop of 10 bytes: pos went
\* 10, 26 and is 16 now, not 10
C22_Witness ==
    /\ nops = 4 /\ Len(arenas) = 1
    /\ last.op = "arena_pop" /\ last.size = 10
    /\ LastArena.start # NULL /\ LastArena.start % 8 = 0
    /\ LastArena.pos = 16

\* the walk from the head, cut one slot after the number of calls made so far:
\* every slot was linked by one call of free
BoundedWalk == SlotsFrom(mem, freelist, nops + 1)

\* the walk over the free list ends at NULL and passes no slot twice
Acyclic ==
    /\ Len(BoundedWalk) <= nops
    /\ \A i, j \in 1 .. Len(BoundedWalk) : i < j => BoundedWalk[i].slot # BoundedWalk[j].slot

C23_AcyclicAlways == Acyclic

\* ------------------------------------------- _sbrk called without serialising
\* _sbrk holds no lock and masks no interrupt, so a second context can run
\* between any two of its accesses to heap_mark. Each access is one step.
MaxRaceOps == 3
RaceIncrs == {0, 20, 60, 100}

Busy(t) == sbrk_ctx[t].pc \notin {"idle", "done"}
\* a step of t that falls inside a call another context has not finished
Overlapped(t) == interleaved \/ \E u \in Contexts \ {t} : Busy(u)

\* heap_mark = new_heap; return new_heap
sbrk_commit_returns_new(c) == [heap_mark |-> c.new_heap, ret |-> c.new_heap]

\* heap_mark = new_heap; return prev_heap
sbrk_commit(c) == [heap_mark |-> c.new_heap, ret |-> c.prev_heap]

RaceFrame == UNCHANGED <<heap_start, heap_end, freelist, mem, arenas, live, last, wr,
                         bump_vars, demo_vars>>

\* the call and if (incr <= 0) return NULL
SbrkEnter(t, incr) ==
    /\ sbrk_ctx[t].pc = "idle"
    /\ nops < MaxRaceOps
    /\ sbrk_ctx' = [sbrk_ctx EXCEPT ![t] =
            IF incr <= 0 THEN [NoSbrk EXCEPT !.pc = "done", !.incr = incr]
            ELSE [NoSbrk EXCEPT !.pc = "prev_heap", !.incr = incr]]
    /\ interleaved' = Overlapped(t)
    /\ nops' = nops + 1
    /\ cursor_failed' = (cursor_failed \/ incr <= 0)
    /\ UNCHANGED <<heap_mark, grants>>
    /\ RaceFrame

\* char *prev_heap = heap_mark
SbrkReadPrev(t) ==
    /\ sbrk_ctx[t].pc = "prev_heap"
    /\ sbrk_ctx' = [sbrk_ctx EXCEPT ![t].pc = "new_heap", ![t].prev_heap = heap_mark]
    /\ interleaved' = Overlapped(t)
    /\ UNCHANGED <<heap_mark, grants, nops, cursor_failed>>
    /\ RaceFrame

\* char *new_heap = heap_mark + incr
SbrkReadNew(t) ==
    /\ sbrk_ctx[t].pc = "new_heap"
    /\ sbrk_ctx' = [sbrk_ctx EXCEPT ![t].pc = "check",
                                    ![t].new_heap = Wrap(heap_mark + sbrk_ctx[t].incr)]
    /\ interleaved' = Overlapped(t)
    /\ UNCHANGED <<heap_mark, grants, nops, cursor_failed>>
    /\ RaceFrame

\* if (new_heap < heap_mark) return NULL; if (new_heap > &_heap_end) return NULL
SbrkCheck(t) ==
    /\ sbrk_ctx[t].pc = "check"
    /\ LET refused == sbrk_ctx[t].new_heap < heap_mark \/ sbrk_ctx[t].new_heap > heap_end
       IN  /\ sbrk_ctx' = [sbrk_ctx EXCEPT ![t].pc = IF refused THEN "done" ELSE "commit"]
           /\ cursor_failed' = (cursor_failed \/ refused)
    /\ interleaved' = Overlapped(t)
    /\ UNCHANGED <<heap_mark, grants, nops>>
    /\ RaceFrame

\* heap_mark = new_heap; return prev_heap
SbrkCommit(t) ==
    /\ sbrk_ctx[t].pc = "commit"
    /\ LET r == sbrk_commit(sbrk_ctx[t])
       IN  /\ heap_mark' = r.heap_mark
           /\ sbrk_ctx' = [sbrk_ctx EXCEPT ![t].pc = "done", ![t].ret = r.ret]
           /\ grants' = Append(grants, [addr |-> r.ret, n |-> sbrk_ctx[t].incr])
    /\ interleaved' = Overlapped(t)
    /\ UNCHANGED <<nops, cursor_failed>>
    /\ RaceFrame

\* the caller takes the result and may call again
SbrkLeave(t) ==
    /\ sbrk_ctx[t].pc = "done"
    /\ sbrk_ctx' = [sbrk_ctx EXCEPT ![t] = NoSbrk]
    /\ UNCHANGED <<heap_mark, grants, nops, cursor_failed, interleaved>>
    /\ RaceFrame

NextRace ==
    \/ \E t \in Contexts, incr \in RaceIncrs : SbrkEnter(t, incr)
    \/ \E t \in Contexts : SbrkReadPrev(t)
    \/ \E t \in Contexts : SbrkReadNew(t)
    \/ \E t \in Contexts : SbrkCheck(t)
    \/ \E t \in Contexts : SbrkCommit(t)
    \/ \E t \in Contexts : SbrkLeave(t)

SpecRace == Init /\ [][NextRace]_vars

\* two granted ranges share a byte
GrantsOverlap ==
    \E i, j \in 1 .. Len(grants) :
        /\ i < j
        /\ grants[i].addr < grants[j].addr + grants[j].n
        /\ grants[j].addr < grants[i].addr + grants[i].n

\* P1 on the history: addr(i+1) >= addr(i) + n_i
GrantsMonotonic ==
    \A i \in 1 .. Len(grants) - 1 : grants[i + 1].addr >= grants[i].addr + grants[i].n

\* C24: as long as no call of _sbrk ran inside another one, the granted ranges
\* are in increasing order, pairwise disjoint and inside [heap_start, heap_mark);
\* calls that interleave can both succeed with overlapping ranges (C24_Witness)
C24_SerializedKeepP1 ==
    ~interleaved =>
        /\ GrantsMonotonic
        /\ ~GrantsOverlap
        /\ \A i \in 1 .. Len(grants) :
              heap_start <= grants[i].addr /\ grants[i].addr + grants[i].n <= heap_mark

\* a request ran between another one's read of heap_mark and its write-back, and
\* both succeeded with ranges that share bytes
C24_Witness ==
    /\ interleaved
    /\ Len(grants) = 2
    /\ \A t \in Contexts : sbrk_ctx[t].pc = "done" /\ sbrk_ctx[t].ret # NULL
    /\ GrantsOverlap

\* P1 without the proviso: refuted by the interleaved calls
C24_P1Unconditional == GrantsMonotonic /\ ~GrantsOverlap

\* the arena as arena_alloc returned it
AsReserved(arena) == [start |-> arena.start, pos |-> 0, capacity |-> arena.capacity]

\* the addresses returned by arena_push of each size of sizes in turn
RECURSIVE PushAddrs(_, _)
PushAddrs(arena, sizes) ==
    IF sizes = <<>> THEN <<>>
    ELSE LET r == arena_push(arena, Head(sizes))
         IN  <<r.ret>> \o PushAddrs([arena EXCEPT !.pos = r.pos], Tail(sizes))

PushSeqs == {<<10>>, <<10, 10>>, <<10, 10, 10, 10, 10>>, <<64>>, <<1, 60>>}

\* C25: arena_clear sets pos to 0 from any pos and changes nothing else, so the
\* pushes after it return the addresses they return on the arena as reserved;
\* arena_release changes neither the arena nor heap_mark nor the free list; the
\* heap cursor never retreats
C25_ClearReleaseFrame ==
    [][/\ Calls({"arena_clear"}) =>
            /\ arenas' = [arenas EXCEPT ![last'.a].pos = 0]
            /\ UNCHANGED <<heap_start, heap_end, heap_mark, freelist, mem, live, grants>>
            /\ \A sizes \in PushSeqs :
                  PushAddrs(arenas'[last'.a], sizes) = PushAddrs(AsReserved(arenas[last'.a]), sizes)
       /\ Calls({"arena_release"}) =>
            UNCHANGED <<arenas, heap_start, heap_end, heap_mark, freelist, mem, live, grants>>
       /\ heap_mark' >= heap_mark]_vars

\* arena_clear has just run as the fourth call on a reserved arena: pos is 0 and
\* the next two pushes of 10 bytes return the arena's first two addresses
C25_Witness ==
    /\ nops = 4
    /\ Len(arenas) = 1
    /\ last.op = "arena_clear"
    /\ LastArena.start # NULL
    /\ LastArena.pos = 0
    /\ heap_mark = heap_start + 64
    /\ PushAddrs(LastArena, <<10, 10>>) =
          <<ALIGN(LastArena.start, DEFAULT_ALIGN), ALIGN(LastArena.start, DEFAULT_ALIGN) + 16>>

\* --------------------------------- the bump allocator of syscalls_frost.c
\* void *memset(void *dest, int byte, size_t len): the word loop and the byte
\* loop both run while d < dest + len, the sum taken modulo the word
memset(m, dest, byte, len) ==
    IF dest < Wrap(dest + len)
    THEN [x \in DOMAIN m \cup Range(dest, len) |->
            IF Wrap(x - dest) < len THEN byte % 256 ELSE m[x]]
    ELSE m

\* n bytes loaded from s and then stored to d
CopyBlock(m, d, s, n) ==
    [x \in DOMAIN m \cup Range(d, n) |->
        IF Wrap(x - d) < n THEN Peek(m, Wrap(s + Wrap(x - d))) ELSE m[x]]

\* while (d < end) *d++ = *s++, width bytes at a time
RECURSIVE CopyLoop(_, _, _, _, _)
CopyLoop(m, d, s, end, width) ==
    IF d < end
    THEN CopyLoop(CopyBlock(m, d, s, width), Wrap(d + width), Wrap(s + width), end, width)
    ELSE m

\* while (d + 8 < end): eight words loaded, then stored; then the word loop
RECURSIVE CopyWords(_, _, _, _)
CopyWords(m, d, s, end) ==
    IF Wrap(d + 32) < end
    THEN CopyWords(CopyBlock(m, d, s, 32), Wrap(d + 32), Wrap(s + 32), end)
    ELSE CopyLoop(m, d, s, end, 4)

\* void *memcpy(void *dest, const void *src, size_t len)
memcpy(m, dest, src, len) ==
    IF dest % 4 = 0 /\ src % 4 = 0 /\ len % 4 = 0
    THEN CopyWords(m, dest, src, Wrap(dest + len))
    ELSE CopyLoop(m, dest, src, Wrap(dest + len), 1)

\* void *malloc(size_t size) of syscalls_frost.c: the pointer and the new _brk;
\* p + size is computed modulo the word
syscalls_malloc(size) ==
    LET rounded == BitAnd(Wrap(size + 7), BitNot(7))
        p == _brk
    IN  IF Wrap(p + rounded) > heap_end THEN [ret |-> NULL, brk |-> _brk]
        ELSE [ret |-> p, brk |-> Wrap(p + rounded)]

\* void *calloc(size_t nmemb, size_t size): pointer, new _brk and memory
syscalls_calloc(nmemb, size) ==
    LET total == Wrap(nmemb * size)
        r == syscalls_malloc(total)
    IN  [ret |-> r.ret, brk |-> r.brk,
         mem |-> IF r.ret # NULL THEN memset(mem, r.ret, 0, total) ELSE mem]

\* void *realloc(void *ptr, size_t size): pointer, new _brk and memory
syscalls_realloc(ptr, size) ==
    LET r == syscalls_malloc(size)
    IN  [ret |-> r.ret, brk |-> r.brk,
         mem |-> IF r.ret # NULL /\ ptr # NULL THEN memcpy(mem, r.ret, ptr, size) ELSE mem]

MaxBumpOps == 3
BumpSizes == {0, 8, 40, UINT32_MAX}
CallocArgs == {<<0, 8>>, <<2, 8>>, <<3, 4>>, <<WordMod \div 8, 8>>}
ReallocSizes == {8, 16, 40, UINT32_MAX - 7}

\* the blocks handed out so far, with the size the caller asked for
Handed(ret, size) == IF ret = NULL THEN blocks ELSE Append(blocks, [ptr |-> ret, size |-> size])

BumpFrame == UNCHANGED <<heap_start, heap_end, heap_mark, freelist, arenas, live, grants,
                         cursor_failed, race_vars, demo_vars>>

BumpMalloc(size) ==
    /\ nops < MaxBumpOps
    /\ LET r == syscalls_malloc(size)
       IN  /\ _brk' = r.brk
           /\ blocks' = Handed(r.ret, size)
           /\ last' = Call("malloc", 0, size, 0, r.ret, IF r.ret = NULL THEN "fail" ELSE "ok")
    /\ wr' = {}
    /\ nops' = nops + 1
    /\ UNCHANGED mem
    /\ BumpFrame

\* calloc(nmemb, size); the call record keeps nmemb in its field a
BumpCalloc(nmemb, size) ==
    /\ nops < MaxBumpOps
    /\ LET r == syscalls_calloc(nmemb, size)
       IN  /\ _brk' = r.brk
           /\ mem' = r.mem
           /\ blocks' = Handed(r.ret, Wrap(nmemb * size))
           /\ last' = Call("calloc", nmemb, size, 0, r.ret, IF r.ret = NULL THEN "fail" ELSE "ok")
    /\ wr' = {}
    /\ nops' = nops + 1
    /\ BumpFrame

\* realloc(ptr, size) of the i-th block handed out, or of NULL when i = 0
BumpRealloc(i, size) ==
    /\ nops < MaxBumpOps
    /\ i \in 0 .. Len(blocks)
    /\ LET ptr == IF i = 0 THEN NULL ELSE blocks[i].ptr
           r == syscalls_realloc(ptr, size)
       IN  /\ _brk' = r.brk
           /\ mem' = r.mem
           /\ blocks' = Handed(r.ret, size)
           /\ last' = Call("realloc", i, size, 0, r.ret, IF r.ret = NULL THEN "fail" ELSE "ok")
    /\ wr' = {}
    /\ nops' = nops + 1
    /\ BumpFrame

\* void free(void *ptr): (void) ptr
BumpFree(i) ==
    /\ nops < MaxBumpOps
    /\ i \in 1 .. Len(blocks)
    /\ last' = Call("free", i, 0, 0, NULL, "ok")
    /\ wr' = {}
    /\ nops' = nops + 1
    /\ UNCHANGED <<mem, bump_vars>>
    /\ BumpFrame

\* the caller fills the i-th block it was handed with the bytes 1, 2, 3, ...
BumpStore(i) ==
    /\ nops < MaxBumpOps
    /\ i \in 1 .. Len(blocks)
    /\ blocks[i].size \in 1 .. 64
    /\ LET body == Range(blocks[i].ptr, blocks[i].size)
       IN  /\ mem' = [x \in DOMAIN mem \cup body |->
                        IF x \in body THEN 1 + Wrap(x - blocks[i].ptr) ELSE mem[x]]
           /\ wr' = body
    /\ last' = Call("store", i, blocks[i].size, 0, blocks[i].ptr, "ok")
    /\ nops' = nops + 1
    /\ UNCHANGED bump_vars
    /\ BumpFrame

NextBump ==
    \/ \E size \in BumpSizes : BumpMalloc(size)
    \/ \E args \in CallocArgs : BumpCalloc(args[1], args[2])
    \/ \E i \in 0 .. Len(blocks), size \in ReallocSizes : BumpRealloc(i, size)
    \/ \E i \in 1 .. Len(blocks) : BumpFree(i)
    \/ \E i \in 1 .. Len(blocks) : BumpStore(i)

SpecBump == Init /\ [][NextBump]_vars

\* the bytes [a, a + n) and [b, b + k) share a byte
Overlap(a, n, b, k) == n > 0 /\ k > 0 /\ a < b + k /\ b < a + n

\* the block at ret of n bytes shares no byte with a block handed out earlier
FreshBlock(ret, n) ==
    \A k \in 1 .. Len(blocks) : ~Overlap(ret, n, blocks[k].ptr, blocks[k].size)

\* what a step realloc(ptr, new_size) has to do, i being the index of ptr's
\* block (0 for NULL)
ReallocContract(i, new_size, ret) ==
    LET ptr == IF i = 0 THEN NULL ELSE blocks[i].ptr
    IN  IF ret = NULL THEN mem' = mem /\ _brk' = _brk
        ELSE /\ ret # ptr
             /\ FreshBlock(ret, new_size)
             /\ ptr = NULL => mem' = mem
             /\ ptr # NULL =>
                    /\ \A j \in 0 .. new_size - 1 :
                          Peek(mem', Wrap(ret + j)) = Peek(mem, Wrap(ptr + j))
                    /\ \A j \in 0 .. blocks[i].size - 1 :
                          Peek(mem', Wrap(ptr + j)) = Peek(mem, Wrap(ptr + j))

\* C26: realloc(ptr, new_size) with new_size > 0 returns, on success, a freshly
\* allocated block different from ptr whose first new_size bytes are the bytes
\* that were at [ptr, ptr + new_size) (memory unchanged when ptr is NULL) and
\* leaves the old block's bytes as they were; on failure it returns NULL and
\* changes no byte
C26_ReallocCopies ==
    [][(Calls({"realloc"}) /\ last'.size > 0) =>
            ReallocContract(last'.a, last'.size, last'.ret)]_vars

\* the same when every block handed out so far and the new one have between
\* 1 and 64 bytes, so that no size is 0 and no sum wraps: refuted by the copy
\* whose source [ptr, ptr + new_size) runs into its destination
C26_ReallocOfFittingBlocks ==
    [][(/\ Calls({"realloc"}) /\ last'.size \in 1 .. 64
        /\ last'.a > 0
        /\ \A k \in 1 .. Len(blocks) : blocks[k].size \in 1 .. 64) =>
            ReallocContract(last'.a, last'.size, last'.ret)]_vars

\* C27: calloc(count, size) with count * size = 0 returns NULL; with
\* count * size > 0 it returns NULL and leaves _brk, or a block of count * size
\* zero bytes that shares no byte with an earlier block
C27_CallocInheritsP9 ==
    [][Calls({"calloc"}) =>
        LET n == last'.a * last'.size
            ret == last'.ret
        IN  IF n = 0 THEN ret = NULL
            ELSE \/ ret = NULL /\ _brk' = _brk
                 \/ /\ ret # NULL
                    /\ \A j \in 0 .. n - 1 : Peek(mem', Wrap(ret + j)) = 0
                    /\ FreshBlock(ret, n)]_vars

\* a step free(p) of the pointer the malloc just before it returned
FreeAfterMalloc ==
    /\ last.op = "malloc" /\ last.size # 0
    /\ Calls({"free"}) /\ last'.ret = last.ret /\ last'.size = last.size

\* the free list, heap_mark and return value unprimed are those after the first
\* malloc(size); (malloc(size))' is what the malloc(size) after the free does
ReusesBlock ==
    \E again \in {(malloc(last.size))'} :
        /\ again.ret = last.ret
        /\ again.heap_mark = heap_mark
        /\ again.freelist = freelist
        /\ SlotsFrom(again.mem, again.freelist, WordMod) = FreeSlots

\* C28: for every size > 0, p = malloc(size); free(p); q = malloc(size) gives
\* q == p, and leaves heap_mark and the free list as they were after the first
\* malloc
C28_ImmediateReuse == [][FreeAfterMalloc => ReusesBlock]_vars

\* the same in two halves, for the runs where no malloc has exhausted the heap:
\* the free after a malloc keeps heap_mark and puts its slot in front of the
\* list as it was after that malloc, and in every state left by a free the
\* malloc of the freed block's size returns the freed pointer, keeps heap_mark
\* and leaves the list that was behind the freed slot
C28_ReuseOfGrantedBlock ==
    /\ [][(FreeAfterMalloc /\ ~cursor_failed) =>
            /\ heap_mark' = heap_mark
            /\ freelist' = Wrap(last.ret - HeaderBytes)
            /\ Tail(FreeSlots') = FreeSlots]_vars
    /\ []((last.op = "free" /\ last.size # 0 /\ ~cursor_failed) =>
            LET again == malloc(last.size)
            IN  /\ again.ret = last.ret
                /\ again.heap_mark = heap_mark
                /\ again.freelist = SlotNext(mem, freelist)
                /\ SlotsFrom(again.mem, again.freelist, WordMod) = Tail(FreeSlots))

\* malloc, free of its pointer, malloc of the same size as the first three
\* calls: the third call took the block back from the free list and emptied it
C28_Witness ==
    /\ nops = 3
    /\ last.op = "malloc" /\ last.how = "freelist"
    /\ freelist = NULL
    /\ Len(live) = 1 /\ live[1].ptr = last.ret /\ live[1].size = last.size

\* malloc and free with a request whose block size wraps to 0
MaxAlignOps == 4
AlignMallocSizes == {1, 9, UINT32_MAX - 8}

NextAlign ==
    \/ \E size \in AlignMallocSizes : Budget(MaxAlignOps) /\ Malloc(size)
    \/ \E i \in 1 .. Len(live) : Budget(MaxAlignOps) /\ Free(i)

SpecAlign == Init /\ [][NextAlign]_vars

\* C29: with an 8-aligned or an unaligned heap start, after any sequence of
\* malloc and free of returned pointers, every pointer malloc returned is a
\* multiple of 8, every node of the free list is at a multiple of 8, and every
\* node's recorded size is a positive multiple of 8
C29_SizeAlignInvariant ==
    /\ \A i \in 1 .. Len(live) : live[i].ptr % 8 = 0
    /\ (last.op = "malloc" /\ last.ret # NULL) => last.ret % 8 = 0
    /\ \A k \in 1 .. Len(FreeSlots) :
          /\ FreeSlots[k].slot % 8 = 0
          /\ FreeSlots[k].size > 0
          /\ FreeSlots[k].size % 8 = 0

\* a node of the free list that records the size 0
C29_EmptyNodeLinked == \E k \in 1 .. Len(FreeSlots) : FreeSlots[k].size = 0

\* ------------------------------------------------------------ freertos_demo
\* main() creates the mutex, the queue and the four tasks and starts the
\* scheduler. The kernel runs the ready task of highest priority; among ready
\* tasks of equal priority it switches at every tick and at every taskYIELD,
\* so they interleave at any point. INCLUDE_vTaskSuspend is 0, so a block for
\* portMAX_DELAY is a timed block of 2^32 - 1 ticks, not an indefinite one.
QUEUE_LENGTH == 3
NUM_ITEMS == 5
\* ATOMIC_ITERATIONS_PER_WORKER, 4000 in the source
AtomicIterations == 2

Priority(t) == IF t = "Consumer" THEN 2 ELSE 1

\* the positions where a task is inside xSemaphoreTake(xUartMutex, portMAX_DELAY)
TakesMutex == {"started", "sending", "sent", "exiting", "waiting", "received",
               "waiting_workers", "summary"}

\* nothing but the passing of time can make any task other than t run again
OthersGone(t) == \A u \in Tasks \ {t} : task[u].pc = "deleted"

\* the call the task is in can return, or the task is between two calls
Ready(t) ==
    LET pc == task[t].pc
    IN  IF pc = "deleted" THEN FALSE
        ELSE IF t \in Workers THEN TRUE
        ELSE IF pc \in TakesMutex THEN xUartMutex = "free"
        ELSE IF pc = "send" THEN Len(xDataQueue) < QUEUE_LENGTH
        ELSE IF pc = "receive" THEN Len(xDataQueue) > 0
        ELSE IF pc = "take" THEN ulNotifiedValue > 0 \/ OthersGone(t)
        ELSE TRUE

\* the scheduler lets t run
Runs(t) == Ready(t) /\ \A u \in Tasks : Priority(u) > Priority(t) => ~Ready(u)

\* t moves to position pc
Goto(t, pc) == task' = [task EXCEPT ![t].pc = pc]

DemoFrame == UNCHANGED <<memory_vars, race_vars, bump_vars>>

\* xSemaphoreTake(xUartMutex, portMAX_DELAY) returning pdTRUE
Lock(t, pc) ==
    /\ xUartMutex = "free"
    /\ xUartMutex' = t
    /\ Goto(t, pc)
    /\ UNCHANGED <<xDataQueue, ulNotifiedValue, ulProducerCount, ulConsumerCount,
                   ulAtomicCounter, taken, summary>>

\* uart_puts(...); xSemaphoreGive(xUartMutex)
Unlock(t, pc) ==
    /\ xUartMutex' = "free"
    /\ Goto(t, pc)
    /\ UNCHANGED <<xDataQueue, ulNotifiedValue, ulProducerCount, ulConsumerCount,
                   ulAtomicCounter, taken, summary>>

\* static void vProducerTask(void *pvParameters); i is ulValue
ProducerTask ==
    LET t == "Producer"
        pc == task[t].pc
    IN  /\ Runs(t)
        /\ DemoFrame
        /\ \/ pc = "started" /\ Lock(t, "print_started")
           \/ /\ pc = "print_started"
              /\ xUartMutex' = "free"
              /\ task' = [task EXCEPT ![t] = [pc |-> "sending", i |-> 1]]
              /\ UNCHANGED <<xDataQueue, ulNotifiedValue, ulProducerCount, ulConsumerCount,
                             ulAtomicCounter, taken, summary>>
           \/ pc = "sending" /\ Lock(t, "print_sending")
           \/ pc = "print_sending" /\ Unlock(t, "count")
           \/ /\ pc = "count"
              /\ ulProducerCount' = ulProducerCount + 1
              /\ Goto(t, "send")
              /\ UNCHANGED <<xDataQueue, xUartMutex, ulNotifiedValue, ulConsumerCount,
                             ulAtomicCounter, taken, summary>>
           \/ /\ pc = "send"
              /\ Len(xDataQueue) < QUEUE_LENGTH
              /\ xDataQueue' = Append(xDataQueue, task[t].i)
              /\ Goto(t, "sent")
              /\ UNCHANGED <<xUartMutex, ulNotifiedValue, ulProducerCount, ulConsumerCount,
                             ulAtomicCounter, taken, summary>>
           \/ pc = "sent" /\ Lock(t, "print_sent")
           \/ pc = "print_sent" /\ Unlock(t, "yield")
           \/ /\ pc = "yield"
              /\ task' = [task EXCEPT ![t] =
                    [pc |-> IF task[t].i + 1 <= NUM_ITEMS THEN "sending" ELSE "exiting",
                     i |-> task[t].i + 1]]
              /\ UNCHANGED <<xDataQueue, xUartMutex, ulNotifiedValue, ulProducerCount,
                             ulConsumerCount, ulAtomicCounter, taken, summary>>
           \/ pc = "exiting" /\ Lock(t, "print_exiting")
           \/ pc = "print_exiting" /\ Unlock(t, "deleted")

\* the worker's position after iteration i of its loop
NextIteration(i) ==
    [pc |-> IF i + 1 < AtomicIterations THEN "amo" ELSE "notify", i |-> i + 1]

\* static void vAtomicWorkerTask(void *pvParameters)
AtomicWorkerTask(t) ==
    LET pc == task[t].pc
    IN  /\ Runs(t)
        /\ DemoFrame
        /\ \/ /\ pc = "started"
              /\ Goto(t, IF 0 < AtomicIterations THEN "amo" ELSE "notify")
              /\ UNCHANGED <<ulAtomicCounter, ulNotifiedValue>>
           \/ /\ pc = "amo"
              /\ ulAtomicCounter' = ulAtomicCounter + 1
              /\ task' = [task EXCEPT ![t] =
                    IF task[t].i % 64 = 0 THEN [pc |-> "yield", i |-> task[t].i]
                    ELSE NextIteration(task[t].i)]
              /\ UNCHANGED ulNotifiedValue
           \/ /\ pc = "yield"
              /\ task' = [task EXCEPT ![t] = NextIteration(task[t].i)]
              /\ UNCHANGED <<ulAtomicCounter, ulNotifiedValue>>
           \/ /\ pc = "notify"
              /\ ulNotifiedValue' = ulNotifiedValue + 1
              /\ Goto(t, "deleted")
              /\ UNCHANGED ulAtomicCounter
        /\ UNCHANGED <<xDataQueue, xUartMutex, ulProducerCount, ulConsumerCount, taken, summary>>

\* while (ulConsumerCount < NUM_ITEMS)
ConsumerLoop(count) == IF count < NUM_ITEMS THEN "waiting" ELSE "waiting_workers"

\* static void vConsumerTask(void *pvParameters); i counts the notification
\* waits, and holds xQueueOk && xAtomicOk (1 or 0) from "summary" on
ConsumerTask ==
    LET t == "Consumer"
        pc == task[t].pc
    IN  /\ Runs(t)
        /\ DemoFrame
        /\ \/ pc = "started" /\ Lock(t, "print_started")
           \/ pc = "print_started" /\ Unlock(t, ConsumerLoop(ulConsumerCount))
           \/ pc = "waiting" /\ Lock(t, "print_waiting")
           \/ pc = "print_waiting" /\ Unlock(t, "receive")
           \/ /\ pc = "receive"
              /\ Len(xDataQueue) > 0
              /\ xDataQueue' = Tail(xDataQueue)
              /\ Goto(t, "count")
              /\ UNCHANGED <<xUartMutex, ulNotifiedValue, ulProducerCount, ulConsumerCount,
                             ulAtomicCounter, taken, summary>>
           \/ /\ pc = "count"
              /\ ulConsumerCount' = ulConsumerCount + 1
              /\ Goto(t, "received")
              /\ UNCHANGED <<xDataQueue, xUartMutex, ulNotifiedValue, ulProducerCount,
                             ulAtomicCounter, taken, summary>>
           \/ pc = "received" /\ Lock(t, "print_received")
           \/ pc = "print_received" /\ Unlock(t, ConsumerLoop(ulConsumerCount))
           \/ pc = "waiting_workers" /\ Lock(t, "print_workers")
           \/ /\ pc = "print_workers"
              /\ xUartMutex' = "free"
              /\ task' = [task EXCEPT ![t] = [pc |-> "take", i |-> 0]]
              /\ UNCHANGED <<xDataQueue, ulNotifiedValue, ulProducerCount, ulConsumerCount,
                             ulAtomicCounter, taken, summary>>
           \/ \* ulTaskNotifyTake(pdTRUE, portMAX_DELAY): returns the count and
              \* clears it; returns 0 when the block time ran out
              /\ pc = "take"
              /\ ulNotifiedValue > 0 \/ OthersGone(t)
              /\ taken' = Append(taken, ulNotifiedValue)
              /\ ulNotifiedValue' = 0
              /\ task' = [task EXCEPT ![t] =
                    [pc |-> IF task[t].i + 1 < Cardinality(Workers) THEN "take" ELSE "check",
                     i |-> task[t].i + 1]]
              /\ UNCHANGED <<xDataQueue, xUartMutex, ulProducerCount, ulConsumerCount,
                             ulAtomicCounter, summary>>
           \/ /\ pc = "check"
              /\ task' = [task EXCEPT ![t] =
                    [pc |-> "summary",
                     i |-> IF /\ ulProducerCount = NUM_ITEMS /\ ulConsumerCount = NUM_ITEMS
                              /\ ulAtomicCounter = Cardinality(Workers) * AtomicIterations
                           THEN 1 ELSE 0]]
              /\ UNCHANGED <<xDataQueue, xUartMutex, ulNotifiedValue, ulProducerCount,
                             ulConsumerCount, ulAtomicCounter, taken, summary>>
           \/ /\ pc = "summary"
              /\ xUartMutex = "free"
              /\ xUartMutex' = t
              /\ summary' = IF task[t].i = 1 THEN "PASS" ELSE "FAIL"
              /\ Goto(t, "print_summary")
              /\ UNCHANGED <<xDataQueue, ulNotifiedValue, ulProducerCount, ulConsumerCount,
                             ulAtomicCounter, taken>>
           \/ pc = "print_summary" /\ Unlock(t, "halt")

NextDemo ==
    \/ ProducerTask
    \/ ConsumerTask
    \/ \E t \in Workers : AtomicWorkerTask(t)

\* every task that the scheduler lets run does run: ticks and yields rotate the
\* ready tasks of equal priority
SpecDemo ==
    /\ Init
    /\ [][NextDemo]_vars
    /\ WF_vars(ProducerTask)
    /\ WF_vars(ConsumerTask)
    /\ \A t \in Workers : WF_vars(AtomicWorkerTask(t))

\* the consumer has printed PASS after two waits that each returned a
\* notification
Completed ==
    /\ task["Consumer"].pc = "halt"
    /\ summary = "PASS"
    /\ ulProducerCount = NUM_ITEMS /\ ulConsumerCount = NUM_ITEMS
    /\ ulAtomicCounter = Cardinality(Workers) * AtomicIterations
    /\ Len(taken) = Cardinality(Workers)
    /\ \A k \in 1 .. Len(taken) : taken[k] > 0

C30_LostNotification ==
    /\ task["Consumer"].pc = "take"
    /\ taken = <<2>>
    /\ ulNotifiedValue = 0
    /\ OthersGone("Consumer")

\* whatever the waits returned, the verdict printed is never FAIL
C30_NeverFail == summary # "FAIL"

====
